---- MODULE Spec2Model ----
(***************************************************************************)
(* The voice-input Stimulus controller of                                  *)
(* app/javascript/controllers/voice_input_controller.js: a button toggles  *)
(* the browser's SpeechRecognition engine and recognised text is spliced   *)
(* into a text input at the selection.                                     *)
(*                                                                         *)
(* Strings are sequences of one-character strings.  Indices of the         *)
(* engine's result list and offsets into the input are 0-based as in the   *)
(* JavaScript; TLA+ sequences are 1-based, so results[i] of the source is  *)
(* results[i + 1] here.                                                    *)
(***************************************************************************)
EXTENDS Integers, Sequences, FiniteSets, TLC

VARIABLES
    speechRecognition, \* this.speechRecognition: Null or the id of the engine object
    speaking,          \* this.speaking
    created,           \* number of `new SpeechRecognition()` evaluated so far
    engine,            \* the engine object's lifecycle state
    results,           \* the engine's result list of the current session
    resultIndex,       \* resultIndex of the last result event of the session
    textContent,       \* startButtonTarget.textContent
    value,             \* inputTarget.value
    selectionStart,    \* inputTarget.selectionStart
    selectionEnd,      \* inputTarget.selectionEnd
    fault,             \* exception that escaped the last handler, or "none"
    reported,          \* console.error message of the last handler, or "none"
    event,             \* the result event of the single-call driver (SpecFn only)
    transcripts,       \* what extractTranscripts returned for it (SpecFn only)
    hist,              \* the last two handlers run, with the state each started from
    input0,            \* the input's value and selection at connect time
    expected,          \* transcripts of the slots the engine marked final, each once
    rereported,        \* the engine reported an already-final slot again
    delivered,         \* some result event has been handled
    pc                 \* position of the single-call driver (SpecFn only)

vars == <<speechRecognition, speaking, created, engine, results, resultIndex,
          textContent, value, selectionStart, selectionEnd, fault, reported,
          event, transcripts, hist, input0, expected, rereported,
          delivered, pc>>

-----------------------------------------------------------------------------
(* Bounds of the model *)

\* longest text the input is allowed to grow to
MaxText == 3
\* most slots in the engine's result list
MaxSlots == 2

(* Values of the program *)

\* `return null` of getSpeechRecognition; engine objects are numbered from 1
Null == 0

StartLabel == "Start Voice Input"
StopLabel == "Stop Voice Input"

Min(a, b) == IF a < b THEN a ELSE b
Max(a, b) == IF a < b THEN b ELSE a

-----------------------------------------------------------------------------
(* The program state as one record, so that each method is an operator     *)
(* from state to state.                                                    *)

World ==
    [speechRecognition |-> speechRecognition, speaking |-> speaking,
     created |-> created, engine |-> engine, results |-> results,
     resultIndex |-> resultIndex, textContent |-> textContent,
     value |-> value, selectionStart |-> selectionStart,
     selectionEnd |-> selectionEnd, fault |-> fault, reported |-> reported]

Commit(w) ==
    /\ speechRecognition' = w.speechRecognition
    /\ speaking' = w.speaking
    /\ created' = w.created
    /\ engine' = w.engine
    /\ results' = w.results
    /\ resultIndex' = w.resultIndex
    /\ textContent' = w.textContent
    /\ value' = w.value
    /\ selectionStart' = w.selectionStart
    /\ selectionEnd' = w.selectionEnd
    /\ fault' = w.fault
    /\ reported' = w.reported

\* a handler is entered with no exception pending and nothing reported
Enter(w) == [w EXCEPT !.fault = "none", !.reported = "none"]

-----------------------------------------------------------------------------
(* JavaScript and host (DOM, Web Speech API) operations the source calls   *)

\* String.prototype.substring(start, end): both arguments are clamped to
\* [0, length] and swapped when start > end
substring(s, start, end) ==
    LET a == Max(0, Min(start, Len(s)))
        b == Max(0, Min(end, Len(s)))
    IN  SubSeq(s, Min(a, b) + 1, Max(a, b))

\* String.prototype.substring(start)
substringFrom(s, start) == substring(s, start, Len(s))

\* HTMLInputElement.setSelectionRange(start, end): offsets past the end of
\* the value point at its end; when end <= start both are placed at end
setSelectionRange(w, start, end) ==
    LET e == Min(end, Len(w.value))
        s == Min(start, e)
    IN  [w EXCEPT !.selectionStart = s, !.selectionEnd = e]

\* the selectionEnd setter: set the selection range (selectionStart, end)
setSelectionEnd(w, end) == setSelectionRange(w, w.selectionStart, end)

\* the selectionStart setter: the end is first raised to the new start
setSelectionStart(w, start) ==
    setSelectionRange(w, start, Max(w.selectionEnd, start))

\* the value setter: a value that differs from the old one moves the cursor
\* to the end of the text and unselects
setValue(w, v) ==
    IF v = w.value THEN w
    ELSE [w EXCEPT !.value = v, !.selectionStart = Len(v), !.selectionEnd = Len(v)]

\* SpeechRecognition.start(): throws InvalidStateError on an engine that was
\* started and has not yet fired end; whether an engine that has fired error
\* but not yet end accepts the call differs between hosts (restartable)
SpeechRecognition_start(w, restartable) ==
    IF w.engine = "inactive" \/ (w.engine = "errored" /\ restartable)
    THEN [w EXCEPT !.engine = "active", !.results = <<>>, !.resultIndex = 0]
    ELSE [w EXCEPT !.fault = "InvalidStateError"]

\* SpeechRecognition.stop(): a running engine stops listening and will fire
\* end; otherwise nothing happens
SpeechRecognition_stop(w) ==
    IF w.engine = "active" THEN [w EXCEPT !.engine = "stopping"] ELSE w

-----------------------------------------------------------------------------
(* The controller's methods *)

\* getSpeechRecognition(): null when the host has no SpeechRecognition,
\* else a new engine object (properties and callbacks set on it)
getSpeechRecognition(w, supported) ==
    IF ~supported
    THEN [w EXCEPT !.speechRecognition = Null,
                   !.reported = "Speech recognition not supported in this browser"]
    ELSE [w EXCEPT !.created = w.created + 1,
                   !.speechRecognition = w.created + 1,
                   !.engine = "inactive"]

connect(w, supported) ==
    [getSpeechRecognition(w, supported) EXCEPT !.speaking = FALSE]

\* stopRecording that also collapses the input's selection (the preview)
stopRecording_collapseSelection(w) ==
    IF w.speechRecognition = Null
    THEN [w EXCEPT !.fault = "TypeError"]
    ELSE setSelectionRange([SpeechRecognition_stop(w) EXCEPT !.speaking = FALSE],
                           w.selectionStart, w.selectionStart)

stopRecording(w) ==
    IF w.speechRecognition = Null
    THEN [w EXCEPT !.fault = "TypeError"]
    ELSE [SpeechRecognition_stop(w) EXCEPT !.speaking = FALSE]

\* startRecording with a fresh engine object made on every start
startRecording_newEngine(w, restartable) ==
    LET e == SpeechRecognition_start(getSpeechRecognition(w, TRUE), restartable)
    IN  IF e.fault # "none" THEN e ELSE [e EXCEPT !.speaking = TRUE]

startRecording(w, restartable) ==
    IF w.speechRecognition = Null
    THEN [w EXCEPT !.fault = "TypeError"]
    ELSE LET e == SpeechRecognition_start(w, restartable)
         IN  IF e.fault # "none" THEN e ELSE [e EXCEPT !.speaking = TRUE]

record(w, restartable) ==
    IF w.speechRecognition = Null
    THEN [w EXCEPT !.reported = "Speech recognition is not available"]
    ELSE IF w.speaking
         THEN LET s == stopRecording(w)
              IN  IF s.fault # "none" THEN s
                  ELSE [s EXCEPT !.textContent = StartLabel]
         ELSE LET s == startRecording(w, restartable)
              IN  IF s.fault # "none" THEN s
                  ELSE [s EXCEPT !.textContent = StopLabel]

\* the engine fires error: the session is over, end is still to come
SpeechRecognition_error(w) == [w EXCEPT !.engine = "errored"]

\* the engine fires end: it can be started again
SpeechRecognition_end(w) == [w EXCEPT !.engine = "inactive"]

\* onend (and onstart) only log
onend(w) == w

\* the error handler without its stopRecording() call
handleSpeechRecognitionError_reportOnly(w) ==
    [w EXCEPT !.reported = "Speech recognition error:"]

handleSpeechRecognitionError(w) ==
    stopRecording([w EXCEPT !.reported = "Speech recognition error:"])

\* the loop with the isFinal test the wrong way round
RECURSIVE extractLoop_swapped(_, _, _, _)
extractLoop_swapped(ev, i, final_transcript, interim_transcript) ==
    IF i < Len(ev.results)
    THEN IF ~ev.results[i + 1].isFinal
         THEN extractLoop_swapped(ev, i + 1,
                          final_transcript \o ev.results[i + 1].alternatives[1],
                          interim_transcript)
         ELSE extractLoop_swapped(ev, i + 1, final_transcript,
                          interim_transcript \o ev.results[i + 1].alternatives[1])
    ELSE [finalTranscript |-> final_transcript,
          interimTranscript |-> interim_transcript]

\* the loop of extractTranscripts, from index i with the two accumulators
RECURSIVE extractLoop(_, _, _, _)
extractLoop(ev, i, final_transcript, interim_transcript) ==
    IF i < Len(ev.results)
    THEN IF ev.results[i + 1].isFinal
         THEN extractLoop(ev, i + 1,
                          final_transcript \o ev.results[i + 1].alternatives[1],
                          interim_transcript)
         ELSE extractLoop(ev, i + 1, final_transcript,
                          interim_transcript \o ev.results[i + 1].alternatives[1])
    ELSE [finalTranscript |-> final_transcript,
          interimTranscript |-> interim_transcript]

\* extractTranscripts looping from 0 instead of event.resultIndex
extractTranscripts_fromZero(ev) == extractLoop(ev, 0, <<>>, <<>>)

extractTranscripts(ev) == extractLoop(ev, ev.resultIndex, <<>>, <<>>)

\* updateInputValue keeping the selected text: afterSelection cut at
\* selectionStart instead of selectionEnd
updateInputValue_keepSelected(w, finalTranscript, interimTranscript) ==
    LET start == w.selectionStart
        updatedValue == substring(w.value, 0, start) \o finalTranscript
                            \o substringFrom(w.value, start)
        w1 == setValue(w, updatedValue)
        w2 == setSelectionEnd(w1, start + Len(finalTranscript))
        w3 == setSelectionStart(w2, start + Len(finalTranscript))
    IN  setSelectionRange(w3, start + Len(finalTranscript),
                          start + Len(finalTranscript) + Len(interimTranscript))

\* updateInputValue writing the interim transcript into the value as well
updateInputValue_insertInterim(w, finalTranscript, interimTranscript) ==
    LET start == w.selectionStart
        updatedValue == substring(w.value, 0, start) \o finalTranscript
                            \o interimTranscript \o substringFrom(w.value, w.selectionEnd)
        w1 == setValue(w, updatedValue)
        w2 == setSelectionEnd(w1, start + Len(finalTranscript))
        w3 == setSelectionStart(w2, start + Len(finalTranscript))
    IN  setSelectionRange(w3, start + Len(finalTranscript),
                          start + Len(finalTranscript) + Len(interimTranscript))

updateInputValue(w, finalTranscript, interimTranscript) ==
    LET start == w.selectionStart
        end == w.selectionEnd
        currentValue == w.value
        beforeSelection == substring(currentValue, 0, start)
        afterSelection == substringFrom(currentValue, end)
        updatedValue == beforeSelection \o finalTranscript \o afterSelection
        w1 == setValue(w, updatedValue)
        w2 == setSelectionEnd(w1, start + Len(finalTranscript))
        w3 == setSelectionStart(w2, start + Len(finalTranscript))
        updatedSelectionStart == start + Len(finalTranscript)
        updatedSelectionEnd == updatedSelectionStart + Len(interimTranscript)
    IN  setSelectionRange(w3, updatedSelectionStart, updatedSelectionEnd)

\* handleSpeechRecognitionResult ignoring results while speaking is false
handleSpeechRecognitionResult_whileSpeaking(w, ev) ==
    IF ~w.speaking THEN w
    ELSE LET t == extractTranscripts(ev)
         IN  updateInputValue(w, t.finalTranscript, t.interimTranscript)

handleSpeechRecognitionResult(w, ev) ==
    LET t == extractTranscripts(ev)
    IN  updateInputValue(w, t.finalTranscript, t.interimTranscript)

-----------------------------------------------------------------------------
(* Inputs *)

\* alternatives of a result slot, best first; [0] of the source is [1] here
AlternativeLists == { << <<"a">> >>, << <<"b", "c">>, <<"z">> >> }

Slots == [isFinal : BOOLEAN, alternatives : AlternativeLists]

SlotLists(n) == UNION {[1..k -> Slots] : k \in 0..n}

\* no result event yet
NoEvent == [resultIndex |-> 0, results |-> <<>>]

NoTranscripts == [finalTranscript |-> <<>>, interimTranscript |-> <<>>]

\* the selections the DOM allows on a text:
\* 0 <= selectionStart <= selectionEnd <= length
Selections(t) == {p \in (0..Len(t)) \X (0..Len(t)) : p[1] <= p[2]}

\* the input of a page when the controller connects (or a result arrives)
ValidInputs(texts) ==
    UNION {{[value |-> t, selectionStart |-> p[1], selectionEnd |-> p[2]] :
               p \in Selections(t)} : t \in texts}

InitTexts == {<<>>, <<"x">>}

\* the state before connect() runs: no fields set, the page as rendered
Page(i) ==
    [speechRecognition |-> Null, speaking |-> FALSE, created |-> 0,
     engine |-> "none", results |-> <<>>, resultIndex |-> 0,
     textContent |-> StartLabel, value |-> i.value,
     selectionStart |-> i.selectionStart, selectionEnd |-> i.selectionEnd,
     fault |-> "none", reported |-> "none"]

-----------------------------------------------------------------------------
(* The state machine: the button and the engine drive the controller *)

\* the program's variables hold the state w
Holds(w) ==
    /\ speechRecognition = w.speechRecognition
    /\ speaking = w.speaking
    /\ created = w.created
    /\ engine = w.engine
    /\ results = w.results
    /\ resultIndex = w.resultIndex
    /\ textContent = w.textContent
    /\ value = w.value
    /\ selectionStart = w.selectionStart
    /\ selectionEnd = w.selectionEnd
    /\ fault = w.fault
    /\ reported = w.reported

\* the state after connect(), on a host with or without SpeechRecognition
Init ==
    \E i \in ValidInputs(InitTexts), supported \in BOOLEAN :
        /\ Holds(connect(Page(i), supported))
        /\ input0 = i
        /\ event = NoEvent
        /\ transcripts = NoTranscripts
        /\ hist = <<>>
        /\ expected = <<>>
        /\ rereported = FALSE
        /\ delivered = FALSE
        /\ pc = "run"

\* the handler op ran from the current state and left the state w
Step(op, w) ==
    /\ pc = "run"
    /\ Commit(w)
    /\ hist' = LET h == Append(hist, [op |-> op, speaking |-> speaking,
                                      textContent |-> textContent])
               IN  SubSeq(h, Max(1, Len(h) - 1), Len(h))
    /\ pc' = pc

\* the user clicks the button: data-action click->voice-input#record
Click ==
    \E restartable \in BOOLEAN :
        /\ Step("record", record(Enter(World), restartable))
        /\ UNCHANGED <<event, transcripts, input0, expected, rereported, delivered>>

\* transcripts of the slots that are final in new and were not in old
RECURSIVE NewFinals(_, _, _)
NewFinals(old, new, i) ==
    IF i > Len(new) THEN <<>>
    ELSE (IF new[i].isFinal /\ ~(i <= Len(old) /\ old[i].isFinal)
          THEN new[i].alternatives[1] ELSE <<>>) \o NewFinals(old, new, i + 1)

\* the result events the engine may fire next: the first changed index never
\* decreases within a session, slots below it are as they were, at least one
\* slot is reported, and a slot once final stays as it is
NextEvents ==
    {ev \in [resultIndex : resultIndex..Len(results), results : SlotLists(MaxSlots)] :
        /\ Len(ev.results) > ev.resultIndex
        /\ SubSeq(ev.results, 1, ev.resultIndex) = SubSeq(results, 1, ev.resultIndex)
        /\ \A i \in 1..Len(results) :
               results[i].isFinal => i <= Len(ev.results) /\ ev.results[i] = results[i]}

\* the engine fires result while it listens or winds down
OnResult ==
    /\ speechRecognition # Null
    /\ engine \in {"active", "stopping"}
    /\ \E ev \in NextEvents :
        /\ Len(value) + Len(extractTranscripts(ev).finalTranscript) <= MaxText
        /\ Step("onresult",
                handleSpeechRecognitionResult(
                    [Enter(World) EXCEPT !.results = ev.results,
                                         !.resultIndex = ev.resultIndex], ev))
        /\ expected' = expected \o NewFinals(results, ev.results, 1)
        /\ rereported' = (rereported \/
                          \E i \in ev.resultIndex + 1..Len(results) : results[i].isFinal)
        /\ delivered' = TRUE
        /\ UNCHANGED <<event, transcripts, input0>>

\* the engine fires error
OnError ==
    /\ speechRecognition # Null
    /\ engine \in {"active", "stopping"}
    /\ Step("onerror", handleSpeechRecognitionError(SpeechRecognition_error(Enter(World))))
    /\ UNCHANGED <<event, transcripts, input0, expected, rereported, delivered>>

\* the engine fires end, after stop(), after an error, or on its own
OnEnd ==
    /\ speechRecognition # Null
    /\ engine \in {"active", "stopping", "errored"}
    /\ Step("onend", onend(SpeechRecognition_end(Enter(World))))
    /\ UNCHANGED <<event, transcripts, input0, expected, rereported, delivered>>

Next == Click \/ OnResult \/ OnError \/ OnEnd

Spec == Init /\ [][Next]_vars

-----------------------------------------------------------------------------
(* The methods as a public interface: startRecording and stopRecording are  *)
(* methods of the controller object like record, and may be called (or     *)
(* bound to an action) directly.                                           *)

StartRecordingCall ==
    \E restartable \in BOOLEAN :
        /\ Step("startRecording", startRecording(Enter(World), restartable))
        /\ UNCHANGED <<event, transcripts, input0, expected, rereported, delivered>>

StopRecordingCall ==
    /\ Step("stopRecording", stopRecording(Enter(World)))
    /\ UNCHANGED <<event, transcripts, input0, expected, rereported, delivered>>

NextApi == Next \/ StartRecordingCall \/ StopRecordingCall

SpecApi == Init /\ [][NextApi]_vars

-----------------------------------------------------------------------------
(* One result event handled from an arbitrary input and an arbitrary event *)

\* longest text of the single-call driver
MaxCallText == 2
\* most slots of its events
MaxCallSlots == 3

RECURSIVE Texts(_)
Texts(n) ==
    IF n = 0 THEN {<<>>}
    ELSE Texts(n - 1) \cup {Append(t, c) : t \in {u \in Texts(n - 1) : Len(u) = n - 1},
                                            c \in {"x", "y"}}

HelloWorld == <<"h", "e", "l", "l", "o", " ", "w", "o", "r", "l", "d">>
There == <<" ", "t", "h", "e", "r", "e">>
HelloThereWorld ==
    <<"h", "e", "l", "l", "o", " ", "t", "h", "e", "r", "e", " ", "w", "o", "r", "l", "d">>
Test == <<"t", "e", "s", "t">>
Ing == <<"i", "n", "g">>

\* the two worked examples: "hello world" with the caret after "hello" and
\* a final " there"; an empty input and a final "test" with an interim "ing"
ExampleCalls ==
    {[input |-> [value |-> HelloWorld, selectionStart |-> 5, selectionEnd |-> 5],
      event |-> [resultIndex |-> 0,
                 results |-> <<[isFinal |-> TRUE, alternatives |-> <<There>>]>>]],
     [input |-> [value |-> <<>>, selectionStart |-> 0, selectionEnd |-> 0],
      event |-> [resultIndex |-> 0,
                 results |-> <<[isFinal |-> TRUE, alternatives |-> <<Test>>],
                               [isFinal |-> FALSE, alternatives |-> <<Ing>>]>>]]}

\* a result event reports at least one slot at or above resultIndex
CallEvents ==
    {ev \in [resultIndex : 0..MaxCallSlots, results : SlotLists(MaxCallSlots)] :
        ev.resultIndex < Len(ev.results)}

Calls ==
    ExampleCalls \cup [input : ValidInputs(Texts(MaxCallText)), event : CallEvents]

\* the binding is recording (connected, the button clicked once) and the
\* engine is about to fire the result event c.event on the input c.input
InitFn ==
    \E c \in Calls :
        /\ Holds(record(connect(Page(c.input), TRUE), FALSE))
        /\ input0 = c.input
        /\ event = c.event
        /\ transcripts = NoTranscripts
        /\ hist = <<>>
        /\ expected = <<>>
        /\ rereported = FALSE
        /\ delivered = FALSE
        /\ pc = "call"

CallResult ==
    /\ pc = "call"
    /\ Commit(handleSpeechRecognitionResult(
                  [Enter(World) EXCEPT !.results = event.results,
                                       !.resultIndex = event.resultIndex], event))
    /\ transcripts' = extractTranscripts(event)
    /\ hist' = <<[op |-> "onresult", speaking |-> speaking, textContent |-> textContent]>>
    /\ delivered' = TRUE
    /\ pc' = "done"
    /\ UNCHANGED <<event, input0, expected, rereported>>

NextFn == CallResult

SpecFn == InitFn /\ [][NextFn]_vars

-----------------------------------------------------------------------------
(* Properties *)

\* the handler that ran last, with the state it started from
Last == hist[Len(hist)]
Ran(op) == hist # <<>> /\ Last.op = op

\* C1: with an engine handle, two record() calls in a row, no engine event
\* between them, leave speaking and the button label as they were before
\* the first call.
C1_ToggleTwice ==
    (speechRecognition # Null /\ Len(hist) = 2
        /\ hist[1].op = "record" /\ hist[2].op = "record")
    => (speaking = hist[1].speaking /\ textContent = hist[1].textContent)

\* C2: without an engine handle, record(), startRecording() and
\* stopRecording() throw nothing, report an error and leave speaking, the
\* button label and the input as they were.
C2_NoOpWithoutHandle ==
    (speechRecognition = Null /\ hist # <<>>)
    => /\ fault = "none"
       /\ reported # "none"
       /\ speaking = Last.speaking
       /\ textContent = Last.textContent
       /\ [value |-> value, selectionStart |-> selectionStart,
           selectionEnd |-> selectionEnd] = input0

\* C3: after the error handler has run, speaking is false, whatever it was.
C3_ErrorIdle == Ran("onerror") => ~speaking

\* C3 witness: an error was handled that arrived while speaking was true.
C3_Witness == Ran("onerror") /\ Last.speaking /\ ~speaking

\* C4: after an error that arrived while recording with the button showing
\* "Stop Voice Input", recording has stopped and the button shows
\* "Start Voice Input".
C4_LabelReverts ==
    (Ran("onerror") /\ Last.speaking /\ Last.textContent = StopLabel)
    => (~speaking /\ textContent = StartLabel)

\* C5: whenever the engine has ended and has not been started since,
\* speaking is false.
C5_EndedIdle == (speechRecognition # Null /\ engine = "inactive") => ~speaking

\* the input's text before and after the selection it had at the start
Before0 == SubSeq(input0.value, 1, input0.selectionStart)
After0 == SubSeq(input0.value, input0.selectionEnd + 1, Len(input0.value))

\* C6: one result event turns the text into text[0:start] + finalText +
\* text[end:] and puts the caret (selectionStart) at start + len(finalText);
\* "hello world" with the caret at 5 and finalText " there" becomes
\* "hello there world" with the caret at 11.
C6_Splice ==
    pc = "done"
    => /\ value = Before0 \o transcripts.finalTranscript \o After0
       /\ selectionStart = input0.selectionStart + Len(transcripts.finalTranscript)
       /\ (input0.value = HelloWorld /\ transcripts.finalTranscript = There)
              => (value = HelloThereWorld /\ selectionStart = 11)

\* C6 witness: the worked example has run.
C6_Witness ==
    /\ pc = "done"
    /\ input0 = [value |-> HelloWorld, selectionStart |-> 5, selectionEnd |-> 5]
    /\ transcripts.finalTranscript = There
    /\ value = HelloThereWorld

\* the text spliced in so far is t: the input reads Before0, then t, then
\* what is left of After0, and the caret is right behind t
Inserted(t) ==
    LET n == Len(value) - Len(Before0) - Len(t)
    IN  /\ n \in 0..Len(After0)
        /\ value = Before0 \o t \o SubSeq(After0, Len(After0) - n + 1, Len(After0))
        /\ selectionStart = Len(Before0) + Len(t)

\* C7 as claimed: for result events with a non-decreasing resultIndex, the
\* text inserted is the concatenation, in event order, of the transcripts of
\* the slots ever marked final, each exactly once.
C7_FinalsOnce == delivered => Inserted(expected)

\* C7 as amended: the same, for sequences in which no slot already reported
\* final lies at or above the resultIndex of a later event.
C7_FinalsOnceIfNotRereported == (delivered /\ ~rereported) => Inserted(expected)

\* C7 witness: two slots, made final by two different events, the second
\* event starting past the first slot.
C7_Witness ==
    /\ delivered /\ ~rereported
    /\ Len(hist) = 2 /\ hist[1].op = "onresult" /\ hist[2].op = "onresult"
    /\ Len(results) = 2 /\ results[1].isFinal /\ results[2].isFinal
    /\ resultIndex = 1
    /\ expected = results[1].alternatives[1] \o results[2].alternatives[1]

C9_OneHandle ==
    /\ [](created <= 1 /\ speechRecognition \in {Null, created})
    /\ [][speechRecognition' = speechRecognition /\ created' = created]_vars

\* C9 witness: a start/stop cycle has run on the engine object of connect.
C9_Witness ==
    /\ speechRecognition = 1 /\ created = 1
    /\ Len(hist) = 2 /\ hist[1].op = "record" /\ hist[2].op = "record"
    /\ hist[1].speaking /\ ~hist[2].speaking /\ speaking

\* the 0-based indices from resultIndex on whose slot has isFinal = b
SlotsInRange(ev, b) ==
    {i \in ev.resultIndex..Len(ev.results) - 1 : ev.results[i + 1].isFinal = b}

\* the top alternatives of the slots with index in S, by increasing index
RECURSIVE ConcatTop(_, _)
ConcatTop(ev, S) ==
    IF S = {} THEN <<>>
    ELSE LET m == CHOOSE i \in S : \A j \in S : i <= j
         IN  ev.results[m + 1].alternatives[1] \o ConcatTop(ev, S \ {m})

\* C10: extractTranscripts returns as finalTranscript the top alternatives of
\* the final slots with index in [resultIndex, length), by increasing index,
\* and as interimTranscript those of the other slots in that range.
C10_Extract ==
    pc = "done"
    => /\ transcripts.finalTranscript = ConcatTop(event, SlotsInRange(event, TRUE))
       /\ transcripts.interimTranscript = ConcatTop(event, SlotsInRange(event, FALSE))

\* C10 witness: an event with a final slot below resultIndex that is left
\* out, and a final and an interim slot in range.
C10_Witness ==
    /\ pc = "done"
    /\ event.resultIndex = 1 /\ Len(event.results) = 3
    /\ event.results[1].isFinal
    /\ event.results[2].isFinal /\ ~event.results[3].isFinal
    /\ transcripts.finalTranscript = event.results[2].alternatives[1]
    /\ transcripts.interimTranscript = event.results[3].alternatives[1]


\* C11: under any interleaving of clicks and engine events, record() calls
\* the engine's start() only on an engine that is not started: one that was
\* never started or has fired end since its last start.
C11_NoStartWhileStarted ==
    [][(Click /\ speechRecognition # Null /\ ~speaking) => engine = "inactive"]_vars

\* C12: right after record() on a binding with an engine handle, the button
\* shows "Stop Voice Input" exactly when speaking is true and "Start Voice
\* Input" exactly when it is false.
C12_LabelMatchesState ==
    (Ran("record") /\ speechRecognition # Null)
    => /\ (textContent = StopLabel) <=> speaking
       /\ (textContent = StartLabel) <=> ~speaking


\* C13: record() (with the startRecording() or stopRecording() it calls),
\* the error handler and the end callback leave the input's text and
\* selection as they are; only result events change the input, so committed
\* text survives a stop or an error.
C13_InputFrame ==
    [][(Click \/ OnError \/ OnEnd)
          => UNCHANGED <<value, selectionStart, selectionEnd>>]_vars

\* C13 witness: an error has been handled after final text was committed
\* and an interim preview selected, and both are still in the input.
C13_Witness ==
    /\ Ran("onerror") /\ Last.speaking
    /\ delivered /\ expected # <<>> /\ Inserted(expected)
    /\ selectionStart < selectionEnd


\* C14: from a text T with a collapsed caret at p and no user edits, every
\* sequence of result events keeps T[0:p] as a prefix of the input and all
\* of T[p:] as its suffix.
C14_UserTextKept ==
    input0.selectionStart = input0.selectionEnd
    => /\ Len(value) >= Len(input0.value)
       /\ SubSeq(value, 1, Len(Before0)) = Before0
       /\ SubSeq(value, Len(value) - Len(After0) + 1, Len(value)) = After0


\* C15 as claimed: a result event with an empty finalText leaves the text
\* as it is and selectionStart where it is, for every text and every
\* selection, collapsed or not.
C15_InterimOnlyNoChange ==
    (pc = "done" /\ transcripts.finalTranscript = <<>>)
    => (value = input0.value /\ selectionStart = input0.selectionStart)

\* C15 as amended: such an event leaves selectionStart where it is for
\* every selection and the text as it is when the selection is collapsed; a
\* selection that is not collapsed is removed from the text, which becomes
\* text[0:start] + text[end:].
C15_InterimOnlyRemovesSelection ==
    (pc = "done" /\ transcripts.finalTranscript = <<>>)
    => /\ selectionStart = input0.selectionStart
       /\ value = Before0 \o After0
       /\ input0.selectionStart = input0.selectionEnd => value = input0.value

\* C15 witness: an interim-only event has been handled with the caret
\* collapsed inside a text.
C15_Witness ==
    /\ pc = "done"
    /\ transcripts.finalTranscript = <<>> /\ transcripts.interimTranscript # <<>>
    /\ input0.selectionStart = input0.selectionEnd
    /\ 0 < input0.selectionStart /\ input0.selectionStart < Len(input0.value)
    /\ value = input0.value /\ selectionStart = input0.selectionStart


\* the step is a result event being handled (every step records its handler)
HandledResult == hist' # <<>> /\ hist'[Len(hist')].op = "onresult"

\* C16 as claimed: a result event that arrives while speaking is false
\* (after stop() or after an error) leaves the input's text and selection
\* as they are.
C16_NoChangeWhenIdle ==
    [][(HandledResult /\ ~speaking)
          => UNCHANGED <<value, selectionStart, selectionEnd>>]_vars

\* C16 as amended: a result event is spliced into the input whatever
\* speaking is: also after stop(), while speaking is false, the text becomes
\* text[0:start] + finalText + text[end:] for the event's final slots from
\* resultIndex on, with the caret behind finalText.
C16_ResultAppliedInAnyState ==
    [][HandledResult =>
          LET ev == [resultIndex |-> resultIndex', results |-> results']
              f == ConcatTop(ev, SlotsInRange(ev, TRUE))
          IN  /\ value' = SubSeq(value, 1, selectionStart) \o f
                              \o SubSeq(value, selectionEnd + 1, Len(value))
              /\ selectionStart' = selectionStart + Len(f)]_vars

\* C16 witness: the button was clicked to stop, and the result event that
\* followed, handled while speaking was false, put the one final transcript
\* into the input.
C16_Witness ==
    /\ Len(hist) = 2
    /\ hist[1].op = "record" /\ hist[1].speaking
    /\ hist[2].op = "onresult" /\ ~hist[2].speaking
    /\ ~speaking
    /\ Len(results) = 1 /\ results[1].isFinal
    /\ expected = results[1].alternatives[1]
    /\ value = Before0 \o expected \o After0

====
